---- MODULE Spec2Model ----
(***************************************************************************)
(* Decoding of OpenTimestamps attestation records                          *)
(* (opentimestamps/attestations.go).                                       *)
(*                                                                         *)
(* Bytes are integers 0..255, byte strings are sequences of bytes.  A      *)
(* uint64 is the set of the positions (0..63) of its one bits, so that the *)
(* full 64-bit width is kept.  Pointers are indices into `heap`.  The      *)
(* same input bytes are offered on two independent streams, and a caller   *)
(* may parse from either at any time.                                      *)
(* The byte-stream reader (deserializationContext) is not part of          *)
(* attestations.go; it is modelled from its documented contract.           *)
(***************************************************************************)
EXTENDS Integers, Sequences, FiniteSets, TLC

VARIABLES ctx, heap, results, input

vars == <<ctx, heap, results, input>>

(* ---------------------------------------------------------------- bounds *)

\* Records per input, and ParseAttestation calls per run.
MaxRecords == 2
MaxCalls == 3

(* ------------------------------------------------------------- constants *)

attestationTagSize == 8
attestationMaxPayloadSize == 8192
pendingAttestationMaxUriLength == 1000

\* The value of one hexadecimal digit.
HexDigit(ch) ==
    CASE ch = "0" -> 0 [] ch = "1" -> 1 [] ch = "2" -> 2 [] ch = "3" -> 3
      [] ch = "4" -> 4 [] ch = "5" -> 5 [] ch = "6" -> 6 [] ch = "7" -> 7
      [] ch = "8" -> 8 [] ch = "9" -> 9 [] ch = "a" -> 10 [] ch = "b" -> 11
      [] ch = "c" -> 12 [] ch = "d" -> 13 [] ch = "e" -> 14 [] ch = "f" -> 15

\* The bytes a string of hexadecimal digits (given digit by digit) spells.
mustDecodeHex(digits) ==
    [i \in 1..(Len(digits) \div 2) |->
        16 * HexDigit(digits[2 * i - 1]) + HexDigit(digits[2 * i])]

bitcoinAttestationTag ==
    mustDecodeHex(<<"0", "5", "8", "8", "9", "6", "0", "d",
                    "7", "3", "d", "7", "1", "9", "0", "1">>)

pendingAttestationTag ==
    mustDecodeHex(<<"8", "3", "d", "f", "e", "3", "0", "d",
                    "2", "e", "f", "9", "0", "c", "8", "e">>)

(* ------------------------------------------------------- uint64 as bits *)

RECURSIVE BitsToNat(_)
\* The number a set of bit positions below 31 stands for.
BitsToNat(bits) ==
    IF bits = {} THEN 0
    ELSE LET i == CHOOSE x \in bits : TRUE
         IN 2^i + BitsToNat(bits \ {i})

\* The bits of a number below 2^31.
NatToBits(n) == {i \in 0..30 : (n \div 2^i) % 2 = 1}

\* v > max, for max below 2^31.
U64Greater(v, max) ==
    \/ \E i \in v : i > 30
    \/ BitsToNat(v) > max

\* v < min, for min below 2^31.
U64Less(v, min) ==
    /\ \A i \in v : i <= 30
    /\ BitsToNat(v) < min

(* -------------------------------------------- deserializationContext    *)

nil == [type |-> "nil"]

newDeserializationContext(id, b) == [id |-> id, buf |-> b, pos |-> 0]

\* One byte, or EOF.
readByte(c) ==
    IF c.pos < Len(c.buf)
    THEN [err |-> "nil", val |-> c.buf[c.pos + 1],
          ctx |-> [c EXCEPT !.pos = c.pos + 1]]
    ELSE [err |-> "EOF", val |-> 0, ctx |-> c]

\* Exactly n bytes, or a truncation error.  Where the cursor stands after a
\* short read is not specified: `drain` says whether the bytes that were
\* there have been consumed.
readBytes(c, n, drain) ==
    IF c.pos + n <= Len(c.buf)
    THEN [err |-> "nil", val |-> SubSeq(c.buf, c.pos + 1, c.pos + n),
          ctx |-> [c EXCEPT !.pos = c.pos + n]]
    ELSE [err |-> "EOF", val |-> <<>>,
          ctx |-> IF drain THEN [c EXCEPT !.pos = Len(c.buf)] ELSE c]

\* val | (uint64(b) & 0x7f) << shift, bits shifted beyond bit 63 lost.
OrShifted(val, b, shift) ==
    val \cup {shift + j : j \in {k \in 0..6 :
                                  (b \div 2^k) % 2 = 1 /\ shift + k < 64}}

RECURSIVE readVarUintLoop(_, _, _)
RECURSIVE readVarUintStep(_, _, _)
\* One round of the loop, r being the byte just read: stop at a byte
\* without the continuation bit.
readVarUintStep(r, val, shift) ==
    IF r.err # "nil" THEN [err |-> r.err, val |-> {}, ctx |-> r.ctx]
    ELSE IF r.val < 128
         THEN [err |-> "nil", val |-> OrShifted(val, r.val, shift),
               ctx |-> r.ctx]
         ELSE readVarUintLoop(r.ctx, OrShifted(val, r.val, shift), shift + 7)

readVarUintLoop(c, val, shift) == readVarUintStep(readByte(c), val, shift)

\* A variable-length unsigned integer: seven bits a byte, low bits first.
readVarUint(c) == readVarUintLoop(c, {}, 0)

\* r being the length just read: the range check, then the bytes.
readVarBytesOfLen(r, minLen, maxLen, drain) ==
    IF r.err # "nil" THEN [err |-> r.err, val |-> <<>>, ctx |-> r.ctx]
    ELSE IF U64Greater(r.val, maxLen) \/ U64Less(r.val, minLen)
         THEN [err |-> "range", val |-> <<>>, ctx |-> r.ctx]
         ELSE readBytes(r.ctx, BitsToNat(r.val), drain)

\* A length-prefixed byte string whose length lies in minLen..maxLen.
readVarBytes(c, minLen, maxLen, drain) ==
    readVarBytesOfLen(readVarUint(c), minLen, maxLen, drain)

assertEOF(c) == c.pos = Len(c.buf)

(* ----------------------------------------------------- attestation types *)

newPendingAttestation ==
    [type |-> "pending", tag |-> pendingAttestationTag, uri |-> <<>>]

newBitcoinAttestation ==
    [type |-> "bitcoin", tag |-> bitcoinAttestationTag, height |-> {}]

unknownAttestation(tag, bytes) ==
    [type |-> "unknown", tag |-> tag, bytes |-> bytes]

\* Mutant: a registry that also lists the catch-all type.
attestations_withUnknown ==
    <<newPendingAttestation, newBitcoinAttestation,
      unknownAttestation(<<>>, <<>>)>>

\* The registry of prototypes; heap[1 .. Len(attestations)] holds them.
attestations == <<newPendingAttestation, newBitcoinAttestation>>

\* Mutant: a tag matches when it starts like the prototype's
\* (the last byte is not compared).
baseAttestation_match_prefix(b, tag) ==
    SubSeq(b.tag, 1, Len(b.tag) - 1) = SubSeq(tag, 1, Len(b.tag) - 1)

\* bytes.Equal(b.tag, tag)
baseAttestation_match(b, tag) == b.tag = tag

pendingAttestation_match(p, tag) ==
    [panic |-> FALSE, ok |-> baseAttestation_match(p, tag)]

bitcoinAttestation_match(b, tag) ==
    [panic |-> FALSE, ok |-> baseAttestation_match(b, tag)]

unknownAttestation_match(u, tag) == [panic |-> TRUE, ok |-> FALSE]

\* a.match(tag) through the attestation interface.
match(a, tag) ==
    CASE a.type = "pending" -> pendingAttestation_match(a, tag)
      [] a.type = "bitcoin" -> bitcoinAttestation_match(a, tag)
      [] OTHER -> unknownAttestation_match(a, tag)

\* Mutant: the uri is written into the prototype itself, which is returned
\* (ret := p instead of ret := *p).
pendingAttestation_ret_inPlace(h, p, r) ==
    IF r.err # "nil"
    THEN [att |-> nil, err |-> r.err, ctx |-> r.ctx, heap |-> h]
    ELSE [att |-> [type |-> "ptr", addr |-> p], err |-> "nil",
          ctx |-> r.ctx, heap |-> [h EXCEPT ![p].uri = r.val]]

\* r being the uri just read:  ret := *p; ret.uri = string(uri); return &ret
pendingAttestation_ret(h, p, r) ==
    IF r.err # "nil"
    THEN [att |-> nil, err |-> r.err, ctx |-> r.ctx, heap |-> h]
    ELSE [att |-> [type |-> "ptr", addr |-> Len(h) + 1], err |-> "nil",
          ctx |-> r.ctx, heap |-> Append(h, [h[p] EXCEPT !.uri = r.val])]

\* Mutant: the uri bound is off by one.
pendingAttestation_decode_offByOne(h, p, c, drain) ==
    pendingAttestation_ret(h, p,
        readVarBytes(c, 0, pendingAttestationMaxUriLength + 1, drain))

pendingAttestation_decode(h, p, c, drain) ==
    pendingAttestation_ret(h, p,
        readVarBytes(c, 0, pendingAttestationMaxUriLength, drain))

\* Mutant: the height is kept in 32 bits.
bitcoinAttestation_ret_u32(h, b, r) ==
    IF r.err # "nil"
    THEN [att |-> nil, err |-> r.err, ctx |-> r.ctx, heap |-> h]
    ELSE [att |-> [type |-> "ptr", addr |-> Len(h) + 1], err |-> "nil",
          ctx |-> r.ctx,
          heap |-> Append(h, [h[b] EXCEPT
                                 !.height = {i \in r.val : i < 32}])]

\* r being the height just read:  ret := *b; ret.height = height; return &ret
bitcoinAttestation_ret(h, b, r) ==
    IF r.err # "nil"
    THEN [att |-> nil, err |-> r.err, ctx |-> r.ctx, heap |-> h]
    ELSE [att |-> [type |-> "ptr", addr |-> Len(h) + 1], err |-> "nil",
          ctx |-> r.ctx, heap |-> Append(h, [h[b] EXCEPT !.height = r.val])]

bitcoinAttestation_decode(h, b, c, drain) ==
    bitcoinAttestation_ret(h, b, readVarUint(c))

unknownAttestation_decode(h, u, c, drain) ==
    [att |-> nil, err |-> "panic", ctx |-> c, heap |-> h]

\* a.decode(attCtx) through the attestation interface.
decode(h, a, c, drain) ==
    CASE h[a].type = "pending" -> pendingAttestation_decode(h, a, c, drain)
      [] h[a].type = "bitcoin" -> bitcoinAttestation_decode(h, a, c, drain)
      [] OTHER -> unknownAttestation_decode(h, a, c, drain)

(* ------------------------------------------------------ ParseAttestation *)

\* Mutant: the variant decodes from the stream itself (attCtx := ctx).
newAttCtx_shared(c, attBytes) == c

\* attCtx := newDeserializationContext(bytes.NewBuffer(attBytes))
newAttCtx(c, attBytes) == newDeserializationContext(<<"att", 0>>, attBytes)

\* Mutant: no end-of-payload check.
checkDecoded_noEOF(d) ==
    IF d.err # "nil"
    THEN [att |-> nil, err |-> d.err, ctx |-> d.ctx, heap |-> d.heap]
    ELSE d

\* d being what a.decode(attCtx) returned: its error, or the
\* end-of-payload check, or the attestation.
checkDecoded(d) ==
    IF d.err # "nil"
    THEN [att |-> nil, err |-> d.err, ctx |-> d.ctx, heap |-> d.heap]
    ELSE IF ~assertEOF(d.ctx)
         THEN [att |-> nil, err |-> "expected EOF in attCtx",
               ctx |-> d.ctx, heap |-> d.heap]
         ELSE d

\* The body of `if a.match(tag)`.
decodeMatched(h, a, attCtx, drain) == checkDecoded(decode(h, a, attCtx, drain))

\* Mutant: the Unknown attestation is returned without the payload.
fallbackUnknown_noPayload(h, tag, attBytes, attCtx) ==
    [att |-> unknownAttestation(tag, <<>>), err |-> "nil",
     ctx |-> attCtx, heap |-> h]

\* return unknownAttestation{tag, attBytes}, nil
fallbackUnknown(h, tag, attBytes, attCtx) ==
    [att |-> unknownAttestation(tag, attBytes), err |-> "nil",
     ctx |-> attCtx, heap |-> h]

Called(trace, op, a) == Append(trace, [op |-> op, on |-> a.type])

RECURSIVE scanAttestations(_, _, _, _, _, _, _)
RECURSIVE scanStep(_, _, _, _, _, _, _, _)
\* One round of the loop, m being what a.match(tag) returned for the i-th
\* prototype.  `trace` records the match and decode calls made.
scanStep(h, i, tag, attBytes, attCtx, drain, trace, m) ==
    IF m.panic
    THEN [r |-> [att |-> nil, err |-> "panic", ctx |-> attCtx, heap |-> h],
          trace |-> trace]
    ELSE IF m.ok
         THEN [r |-> decodeMatched(h, i, attCtx, drain),
               trace |-> Called(trace, "decode", h[i])]
         ELSE scanAttestations(h, i + 1, tag, attBytes, attCtx, drain, trace)

\* for _, a := range attestations, from the i-th prototype on.
scanAttestations(h, i, tag, attBytes, attCtx, drain, trace) ==
    IF i > Len(attestations)
    THEN [r |-> fallbackUnknown(h, tag, attBytes, attCtx), trace |-> trace]
    ELSE scanStep(h, i, tag, attBytes, attCtx, drain,
                  Called(trace, "match", h[i]), match(h[i], tag))

\* The result of a call that read tag and payload, s being what the scan
\* of the registry gave.  The stream has moved past the payload (p.ctx),
\* and further only if the decode read from the stream itself.
parseResult(c, p, s) ==
    [att |-> s.r.att, err |-> s.r.err,
     ctx |-> IF s.r.ctx.id = c.id THEN s.r.ctx ELSE p.ctx,
     heap |-> s.r.heap, trace |-> s.trace, stage |-> "dispatch"]

\* Mutant: the error of the payload read is dropped (attBytes, _ := ...).
parseAfterPayload_ignoreErr(h, c, t, p, drain) ==
    parseResult(c, p,
        scanAttestations(h, 1, t.val, p.val, newAttCtx(p.ctx, p.val),
                         drain, <<>>))

\* t, p being the tag and the payload just read.
parseAfterPayload(h, c, t, p, drain) ==
    IF p.err # "nil"
    THEN [att |-> nil, err |-> p.err, ctx |-> p.ctx, heap |-> h,
          trace |-> <<>>, stage |-> "payload"]
    ELSE parseResult(c, p,
             scanAttestations(h, 1, t.val, p.val, newAttCtx(p.ctx, p.val),
                              drain, <<>>))

\* Mutant: the payload is read without the 8192 bound.
parseAfterTag_unbounded(h, c, t, drain) ==
    IF t.err # "nil"
    THEN [att |-> nil, err |-> t.err, ctx |-> t.ctx, heap |-> h,
          trace |-> <<>>, stage |-> "tag"]
    ELSE parseAfterPayload(h, c, t,
             readVarBytes(t.ctx, 0, 2147483647, drain), drain)

\* t being the tag just read.
parseAfterTag(h, c, t, drain) ==
    IF t.err # "nil"
    THEN [att |-> nil, err |-> t.err, ctx |-> t.ctx, heap |-> h,
          trace |-> <<>>, stage |-> "tag"]
    ELSE parseAfterPayload(h, c, t,
             readVarBytes(t.ctx, 0, attestationMaxPayloadSize, drain), drain)

\* One call on the stream c.  stage: how far the call got.
ParseAttestation(h, c, drain) ==
    parseAfterTag(h, c, readBytes(c, attestationTagSize, drain), drain)

\* What a returned attestation holds now.
Deref(h, att) == IF att.type = "ptr" THEN h[att.addr] ELSE att

(* ---------------------------------------------------------------- inputs *)

Fill(n, b) == [i \in 1..n |-> b]

RECURSIVE EncodeVarUint(_)
\* The varint of a uint64: seven bits a byte, low bits first, the high bit
\* of a byte set when more follow (e8 07 is 1000).
EncodeVarUint(v) ==
    LET low == BitsToNat({i \in v : i < 7})
        rest == {i - 7 : i \in {j \in v : j >= 7}}
    IN IF rest = {} THEN <<low>>
       ELSE <<low + 128>> \o EncodeVarUint(rest)

EncodeVarBytes(s) == EncodeVarUint(NatToBits(Len(s))) \o s

\* Payloads: form says what the body was built as.
HeightBody(hh) ==
    [form |-> "height", body |-> EncodeVarUint(hh), s |-> <<>>, h |-> hh,
     extra |-> FALSE]

UriBody(ss) ==
    [form |-> "uri", body |-> EncodeVarBytes(ss), s |-> ss, h |-> {},
     extra |-> FALSE]

WithExtra(p, b) == [p EXCEPT !.body = p.body \o <<b>>, !.extra = TRUE]

RawBody(b) ==
    [form |-> "raw", body |-> b, s |-> <<>>, h |-> {}, extra |-> FALSE]

\* The two well-known tags on the wire: 83dfe30d2ef90c8e, 0588960d73d71901.
WirePendingTag == <<131, 223, 227, 13, 46, 249, 12, 142>>
WireBitcoinTag == <<5, 136, 150, 13, 115, 215, 25, 1>>

\* 0, 127, 128, 1000, 2^35 and 2^64 - 1.
Heights == {{}, 0..6, {7}, NatToBits(1000), {35}, 0..63}

Uris == {<<>>, <<97>>, <<97, 98, 99>>, Fill(1000, 97), Fill(1001, 97)}

\* Besides the well-formed bodies: a field followed by one more byte, a
\* field longer than the payload that holds it, a varint that does not
\* end, and payloads of 8192 and of 8193 bytes.
Payloads ==
    {HeightBody(hh) : hh \in Heights} \cup {UriBody(ss) : ss \in Uris}
    \cup {WithExtra(HeightBody(NatToBits(1000)), 7),
          WithExtra(UriBody(<<97, 98, 99>>), 0)}
    \cup {RawBody(b) : b \in {<<>>, <<5, 97>>, <<128>>,
                             Fill(8192, 97), Fill(8193, 97)}}

\* The known tags, a tag no variant owns, and tags one byte (the last, the
\* first) away from a known one.
Tags == {WirePendingTag, WireBitcoinTag, Fill(8, 255),
         [WirePendingTag EXCEPT ![8] = 143],
         [WireBitcoinTag EXCEPT ![1] = 4]}

Records == {[tag |-> t, payload |-> p] : t \in Tags, p \in Payloads}

\* The records that may follow the first one of a stream.
Followers ==
    {[tag |-> WirePendingTag, payload |-> UriBody(<<97, 98, 99>>)],
     [tag |-> WireBitcoinTag, payload |-> HeightBody(NatToBits(1000))],
     [tag |-> Fill(8, 255), payload |-> RawBody(<<97, 98, 99>>)]}

RecordBytes(r) == r.tag \o EncodeVarBytes(r.payload.body)

RECURSIVE Concat(_)
Concat(rs) == IF rs = <<>> THEN <<>> ELSE RecordBytes(Head(rs)) \o Concat(Tail(rs))

RECURSIVE FollowerLists(_)
FollowerLists(n) ==
    IF n = 0 THEN {<<>>}
    ELSE LET shorter == FollowerLists(n - 1)
         IN shorter \cup {Append(l, f) : l \in shorter, f \in Followers}

\* A stream: a record, then up to MaxRecords - 1 followers, whole; or one
\* record cut short.
Inputs ==
    {[recs |-> <<r>> \o l, cut |-> FALSE, keep |-> 0] :
        r \in Records, l \in FollowerLists(MaxRecords - 1)}
    \cup
    UNION {{[recs |-> <<r>>, cut |-> TRUE, keep |-> k] :
               k \in {0, 7, 8, Len(RecordBytes(r)) - 1}} : r \in Records}

StreamBytes(in) ==
    IF in.cut THEN SubSeq(Concat(in.recs), 1, in.keep) ELSE Concat(in.recs)

(* --------------------------------------------------------- specification *)

\* The streams a caller holds.
StreamIds == {1, 2}

Init ==
    /\ input \in Inputs
    /\ ctx = [s \in StreamIds |->
                 newDeserializationContext(<<"stream", s>>,
                                           StreamBytes(input))]
    /\ heap = attestations
    /\ results = <<>>

Aborted == \E k \in 1..Len(results) : results[k].err = "panic"

\* What is kept of a call: its stream, where it started and ended, what
\* it returned (val: what the returned attestation held at that time), the
\* match and decode calls it made, how far it got.
Outcome(s, c, r) ==
    [stream |-> s, start |-> c.pos, end |-> r.ctx.pos, att |-> r.att,
     err |-> r.err, val |-> Deref(r.heap, r.att), trace |-> r.trace,
     stage |-> r.stage]

\* The state after a call on stream s that returned r.
Returned(s, r) ==
    /\ ctx' = [ctx EXCEPT ![s] = r.ctx]
    /\ heap' = r.heap
    /\ results' = Append(results, Outcome(s, ctx[s], r))

\* A caller's ParseAttestation(ctx), on stream s.
Parse(s) ==
    /\ Len(results) < MaxCalls
    /\ ~Aborted
    /\ \E drain \in BOOLEAN :
          Returned(s, ParseAttestation(heap, ctx[s], drain))
    /\ UNCHANGED input

Next == \E s \in StreamIds : Parse(s)

Spec == Init /\ [][Next]_vars

(* ---------------------------------------------------------------- claims *)

Calls == 1..Len(results)

\* What the attestation the k-th call returned holds now.
Val(k) == Deref(heap, results[k].att)

\* The bytes every stream offers.
Wire == StreamBytes(input)

\* The eight bytes the k-th call read as the tag.
TagRead(k) == SubSeq(Wire, results[k].start + 1, results[k].start + 8)

\* Where the i-th record of the input starts.
RecStart(i) == Len(Concat(SubSeq(input.recs, 1, i - 1)))

\* The k-th call started where a record starts, in an input that holds
\* its records whole; Rec(k) is that record, RecNo(k) its number.
At(k) ==
    /\ k \in Calls
    /\ ~input.cut
    /\ \E i \in 1..Len(input.recs) : results[k].start = RecStart(i)

RecNo(k) == CHOOSE i \in 1..Len(input.recs) : results[k].start = RecStart(i)

Rec(k) == input.recs[RecNo(k)]

\* The first record of the input, for a call at the start of a stream.
First(k) == k \in Calls /\ results[k].start = 0

\* The number of the k-th call among the calls on its stream.
CallNo(k) ==
    Cardinality({j \in 1..k : results[j].stream = results[k].stream})

KnownTag(t) == t \in {WirePendingTag, WireBitcoinTag}

Ops(k, op) == {i \in 1..Len(results[k].trace) : results[k].trace[i].op = op}

\* C1: a record whose tag is neither the Pending nor the Bitcoin constant
\* and whose payload is at most 8192 bytes, all there, decodes without
\* error to an Unknown attestation holding the tag and the payload as they
\* were on the wire; no decode is run on the payload.
C1_UnknownVerbatim ==
    \A k \in Calls :
        (At(k) /\ ~KnownTag(Rec(k).tag) /\ Len(Rec(k).payload.body) <= 8192)
        => /\ results[k].err = "nil"
           /\ Val(k) = [type |-> "unknown", tag |-> Rec(k).tag,
                        bytes |-> Rec(k).payload.body]
           /\ Ops(k, "decode") = {}

\* An unowned tag with a payload of 8192 bytes has come back as Unknown.
C1_Witness ==
    \E k \in Calls :
        /\ At(k) /\ ~KnownTag(Rec(k).tag)
        /\ Rec(k).payload.body = Fill(8192, 97)
        /\ Val(k).type = "unknown"

MatchOn(ty) == [op |-> "match", on |-> ty]
DecodeOn(ty) == [op |-> "decode", on |-> ty]

\* C2: a call that succeeds returns a Pending attestation exactly when the
\* tag it read is 83dfe30d2ef90c8e, a Bitcoin attestation exactly when it
\* is 0588960d73d71901, and an Unknown attestation otherwise; the registry
\* is scanned Pending first, and once a prototype has matched nothing
\* after it is tried, no Unknown is produced, even when its decode fails.
C2_OneVariantByTag ==
    \A k \in Calls :
        /\ results[k].err = "nil"
           => /\ results[k].stage = "dispatch"
              /\ Val(k).type \in {"pending", "bitcoin", "unknown"}
              /\ Val(k).type = "pending" <=> TagRead(k) = WirePendingTag
              /\ Val(k).type = "bitcoin" <=> TagRead(k) = WireBitcoinTag
        /\ (results[k].stage = "dispatch" /\ TagRead(k) = WirePendingTag)
           => /\ results[k].trace = <<MatchOn("pending"), DecodeOn("pending")>>
              /\ results[k].err # "nil" => results[k].att = nil
        /\ (results[k].stage = "dispatch" /\ TagRead(k) = WireBitcoinTag)
           => /\ results[k].trace = <<MatchOn("pending"), MatchOn("bitcoin"),
                                      DecodeOn("bitcoin")>>
              /\ results[k].err # "nil" => results[k].att = nil
        /\ (results[k].stage = "dispatch" /\ ~KnownTag(TagRead(k)))
           => results[k].trace = <<MatchOn("pending"), MatchOn("bitcoin")>>

\* A tag that differs from the Pending constant in its last byte only has
\* given an Unknown attestation, and the next record a Pending one.
C2_Witness ==
    /\ Len(results) >= 2
    /\ results[1].err = "nil" /\ results[2].err = "nil"
    /\ TagRead(1) = [WirePendingTag EXCEPT ![8] = 143]
    /\ Val(1).type = "unknown"
    /\ Val(2).type = "pending"

\* The payload of the k-th record is a well-formed field of the variant
\* its tag names, followed by one more byte.
FieldThenExtra(k) ==
    /\ Rec(k).payload.extra
    /\ \/ Rec(k).tag = WirePendingTag /\ Rec(k).payload.form = "uri"
       \/ Rec(k).tag = WireBitcoinTag /\ Rec(k).payload.form = "height"

\* C3: a record with the Pending or the Bitcoin tag whose payload is a
\* validly encoded field followed by extra bytes gives the error
\* "expected EOF in attCtx" and no attestation.
C3_TrailingBytesFail ==
    \A k \in Calls :
        (At(k) /\ FieldThenExtra(k))
        => /\ results[k].err = "expected EOF in attCtx"
           /\ results[k].att = nil

\* A Bitcoin record whose payload is e8 07 and one more byte has been
\* parsed to its end.
C3_Witness ==
    \E k \in Calls :
        /\ At(k) /\ FieldThenExtra(k) /\ Rec(k).tag = WireBitcoinTag
        /\ results[k].stage = "dispatch"
        /\ results[k].end = Len(Wire)

\* C4: a record whose declared payload length exceeds 8192 fails before
\* any prototype is matched or decoded and gives no attestation, whatever
\* its tag; and every attestation returned has a tag of 8 bytes and comes
\* from a payload of at most 8192 bytes that was read before the dispatch.
C4_PayloadBound ==
    \A k \in Calls :
        /\ (At(k) /\ Len(Rec(k).payload.body) > 8192)
           => /\ results[k].err = "range"
              /\ results[k].stage = "payload"
              /\ results[k].trace = <<>>
              /\ results[k].att = nil
        /\ results[k].att # nil
           => /\ results[k].err = "nil"
              /\ results[k].stage = "dispatch"
              /\ Len(Val(k).tag) = 8
              /\ results[k].end - results[k].start <= 8 + 2 + 8192
              /\ Val(k).type = "unknown" => Len(Val(k).bytes) <= 8192

\* A Pending-tagged record declaring 8193 bytes, all of them there, has
\* been refused.
C4_Witness ==
    \E k \in Calls :
        /\ At(k) /\ Len(Rec(k).payload.body) = 8193
        /\ Rec(k).tag = WirePendingTag
        /\ Len(Wire) = 8 + 2 + 8193
        /\ results[k].att = nil

\* The payload of the k-th record is exactly a length-prefixed uri, under
\* the Pending tag.
PendingRecord(k) ==
    /\ Rec(k).tag = WirePendingTag
    /\ Rec(k).payload.form = "uri" /\ ~Rec(k).payload.extra

\* C5: a Pending record whose uri s has at most 1000 bytes (none included)
\* gives a Pending attestation with uri = s; with 1001 bytes it fails as
\* too large, though the payload is within 8192; so no Pending
\* attestation returned has a uri of more than 1000 bytes.
C5_PendingUri ==
    \A k \in Calls :
        /\ (At(k) /\ PendingRecord(k) /\ Len(Rec(k).payload.s) <= 1000)
           => /\ results[k].err = "nil"
              /\ Val(k) = [type |-> "pending", tag |-> WirePendingTag,
                           uri |-> Rec(k).payload.s]
        /\ (At(k) /\ PendingRecord(k) /\ Len(Rec(k).payload.s) = 1001)
           => /\ results[k].err = "range"
              /\ results[k].stage = "dispatch"
              /\ results[k].att = nil
        /\ Val(k).type = "pending" => Len(Val(k).uri) <= 1000

\* A uri of 1000 bytes has been returned.
C5_Witness ==
    \E k \in Calls :
        /\ At(k) /\ PendingRecord(k)
        /\ Val(k).type = "pending" /\ Len(Val(k).uri) = 1000

\* The payload of the k-th record is exactly the varint of a height, under
\* the Bitcoin tag.
BitcoinRecord(k) ==
    /\ Rec(k).tag = WireBitcoinTag
    /\ Rec(k).payload.form = "height" /\ ~Rec(k).payload.extra

\* C6: a Bitcoin record whose payload is the varint of h gives a Bitcoin
\* attestation with height = h, for 0, small h and 2^64 - 1 alike, nothing
\* wrapped or cut off; the payload e8 07 gives the height 1000.
C6_BitcoinHeight ==
    \A k \in Calls :
        /\ (At(k) /\ BitcoinRecord(k))
           => /\ results[k].err = "nil"
              /\ Val(k) = [type |-> "bitcoin", tag |-> WireBitcoinTag,
                           height |-> Rec(k).payload.h]
        /\ (/\ results[k].stage = "dispatch"
            /\ TagRead(k) = WireBitcoinTag
            /\ results[k].end = results[k].start + 11
            /\ SubSeq(Wire, results[k].start + 9, results[k].end)
                   = <<2, 232, 7>>)
           => /\ results[k].err = "nil"
              /\ Val(k).height = {3, 5, 6, 7, 8, 9}

\* The height 2^64 - 1 has been returned.
C6_Witness ==
    \E k \in Calls :
        /\ At(k) /\ BitcoinRecord(k)
        /\ Len(Rec(k).payload.body) = 10
        /\ Val(k).type = "bitcoin" /\ Val(k).height = 0..63

\* Fewer than 8 bytes are left where the k-th call starts.
ShortTag(k) == Len(Wire) - results[k].start < 8

\* The k-th call finds the tag and the length prefix of a record, and
\* fewer payload bytes than the prefix declares.
ShortPayload(k) ==
    /\ First(k) /\ input.cut
    /\ input.keep >= 8 + Len(EncodeVarUint(NatToBits(
                                 Len(input.recs[1].payload.body))))

\* C7 as stated: when fewer than 8 bytes are left for the tag, or fewer
\* payload bytes than the length prefix declares, the call returns a
\* truncation error at that point, no attestation, reads nothing beyond
\* the bytes there, and calls no match or decode.
C7_TruncationAsStated ==
    \A k \in Calls :
        /\ ShortTag(k)
           => /\ results[k].err = "EOF" /\ results[k].stage = "tag"
              /\ results[k].att = nil /\ results[k].trace = <<>>
              /\ results[k].end <= Len(Wire)
        /\ ShortPayload(k)
           => /\ results[k].err = "EOF" /\ results[k].stage = "payload"
              /\ results[k].att = nil /\ results[k].trace = <<>>
              /\ results[k].end <= Len(Wire)

\* C7, amended: as stated when the length prefix declares at most 8192
\* bytes; when it declares more, the call fails with the too-large error
\* whatever is there, again with no attestation and no match or decode.
C7_Truncation ==
    \A k \in Calls :
        /\ ShortTag(k)
           => /\ results[k].err = "EOF" /\ results[k].stage = "tag"
              /\ results[k].att = nil /\ results[k].trace = <<>>
              /\ results[k].end <= Len(Wire)
        /\ ShortPayload(k)
           => /\ results[k].err =
                     IF Len(input.recs[1].payload.body) <= 8192 THEN "EOF"
                     ELSE "range"
              /\ results[k].stage = "payload"
              /\ results[k].att = nil /\ results[k].trace = <<>>
              /\ results[k].end <= Len(Wire)

\* A record with an unowned tag, one payload byte short, has been refused,
\* and so has the call after it, on what was left of the stream.
C7_Witness ==
    /\ Len(results) >= 2
    /\ ShortPayload(1) /\ ~KnownTag(input.recs[1].tag)
    /\ Len(input.recs[1].payload.body) = 3
    /\ results[1].err = "EOF"
    /\ results[2].stream = results[1].stream
    /\ ShortTag(2) /\ results[2].err = "EOF"

RECURSIVE VarintSize(_, _)
\* The number of bytes of the varint that starts after position pos.
VarintSize(buf, pos) ==
    IF buf[pos + 1] < 128 THEN 1 ELSE 1 + VarintSize(buf, pos + 1)

RECURSIVE VarintNat(_, _)
\* The (small) number that varint spells.
VarintNat(buf, pos) ==
    (buf[pos + 1] % 128)
    + (IF buf[pos + 1] < 128 THEN 0 ELSE 128 * VarintNat(buf, pos + 1))

\* A record that must decode, and what it must decode to.
WellFormed(r) ==
    \/ r.tag = WirePendingTag /\ r.payload.form = "uri"
       /\ ~r.payload.extra /\ Len(r.payload.s) <= 1000
    \/ r.tag = WireBitcoinTag /\ r.payload.form = "height"
       /\ ~r.payload.extra
    \/ ~KnownTag(r.tag) /\ Len(r.payload.body) <= 8192

Expected(r) ==
    CASE r.tag = WirePendingTag ->
             [type |-> "pending", tag |-> r.tag, uri |-> r.payload.s]
      [] r.tag = WireBitcoinTag ->
             [type |-> "bitcoin", tag |-> r.tag, height |-> r.payload.h]
      [] OTHER ->
             [type |-> "unknown", tag |-> r.tag, bytes |-> r.payload.body]

\* C8: a call that has read tag and payload leaves the stream at
\* start + 8 + (size of the length varint) + (payload length), whatever
\* the variant and whether its decode succeeded, failed or left bytes; an
\* inner field longer than the payload fails and takes nothing from the
\* bytes after the record; and calls on a concatenation of well-formed
\* records return their attestations one by one, in order.
C8_CursorPastRecord ==
    \A k \in Calls :
        /\ results[k].stage = "dispatch"
           => results[k].end =
                  results[k].start + 8
                  + VarintSize(Wire, results[k].start + 8)
                  + VarintNat(Wire, results[k].start + 8)
        /\ (At(k) /\ Rec(k).tag = WirePendingTag
                  /\ Rec(k).payload.body = <<5, 97>>)
           => /\ results[k].err = "EOF" /\ results[k].att = nil
              /\ results[k].end = RecStart(RecNo(k) + 1)
        /\ (/\ ~input.cut /\ CallNo(k) <= Len(input.recs)
            /\ \A i \in 1..CallNo(k) : WellFormed(input.recs[i]))
           => /\ results[k].start = RecStart(CallNo(k))
              /\ results[k].err = "nil"
              /\ Val(k) = Expected(input.recs[CallNo(k)])

\* A Pending record whose uri claims 5 bytes of a 2-byte payload has
\* failed, and the next call has returned the Bitcoin record behind it.
C8_Witness ==
    /\ Len(results) >= 2
    /\ At(1) /\ Rec(1).tag = WirePendingTag
    /\ Rec(1).payload.body = <<5, 97>>
    /\ results[1].err = "EOF"
    /\ results[2].stream = results[1].stream
    /\ At(2) /\ RecNo(2) = 2
    /\ results[2].err = "nil" /\ Val(2).type = "bitcoin"

\* Calls j and k, on one stream or on two, were given the same bytes: they
\* started at the same place, or read records that are equal byte for byte.
SameBytes(j, k) ==
    \/ results[j].start = results[k].start
    \/ /\ results[j].stage = "dispatch" /\ results[k].stage = "dispatch"
       /\ SubSeq(Wire, results[j].start + 1, results[j].end)
              = SubSeq(Wire, results[k].start + 1, results[k].end)

\* C9: the outcome of a call depends on the bytes at its place in the
\* stream only: calls given the same bytes return the same value or the
\* same error whatever was parsed before; the prototypes of the registry
\* keep their tag and their empty uri, zero height; and what an earlier
\* call returned is not changed by a later one.
C9_HistoryIndependent ==
    /\ heap[1] = [type |-> "pending", tag |-> WirePendingTag, uri |-> <<>>]
    /\ heap[2] = [type |-> "bitcoin", tag |-> WireBitcoinTag, height |-> {}]
    /\ \A k \in Calls : Val(k) = results[k].val
    /\ \A j, k \in Calls :
          SameBytes(j, k)
          => /\ results[j].err = results[k].err
             /\ Val(j) = Val(k)

\* Calls on the two streams have alternated: two Pending records with
\* different uris have been returned from one, and in between the first of
\* them from the other, as another object of equal value.
C9_Witness ==
    /\ Len(results) >= 3
    /\ results[1].stream = results[3].stream
    /\ results[2].stream # results[1].stream
    /\ Val(1).type = "pending" /\ Val(2).type = "pending"
    /\ Val(3).type = "pending"
    /\ Val(1).uri # Val(3).uri
    /\ Val(1) = Val(2) /\ results[1].att # results[2].att

\* C10: match and decode are called on the Pending and Bitcoin prototypes
\* only, so the Unknown type's match and decode, which abort, are never
\* run: every call ends with an attestation or with an error.
C10_UnknownNeverDispatched ==
    \A k \in Calls :
        /\ results[k].err # "panic"
        /\ \A i \in 1..Len(results[k].trace) :
              results[k].trace[i].on \in {"pending", "bitcoin"}
        /\ \/ results[k].att # nil /\ results[k].err = "nil"
           \/ /\ results[k].att = nil
              /\ results[k].err \in {"EOF", "range", "expected EOF in attCtx"}

\* A tag no prototype owns has gone through the whole registry and come
\* back as Unknown.
C10_Witness ==
    \E k \in Calls :
        /\ results[k].stage = "dispatch"
        /\ TagRead(k) = Fill(8, 255)
        /\ Len(results[k].trace) = 2
        /\ Val(k).type = "unknown"

====
